---- MODULE Spec2Model ----
(***************************************************************************)
(* GitHub Repository Statistics: the fetch-and-aggregate pipeline.         *)
(*                                                                         *)
(*   Spec       main() from the fan-out over the repositories to the       *)
(*              reports: process_repository under the semaphore and the    *)
(*              lock, the seven tracker calls, the fan-in and the reports. *)
(*              A get_response call is one step here (its result).         *)
(*   SpecFetch  GitHubAPIHandler.get_response in detail: the attempts, the *)
(*              rate-limit wait and the backoff sleep of concurrent calls. *)
(*   SpecMetric one RepositoryTrafficMetric object under any sequence of   *)
(*              add_repository_metric / add_repository_traffic_metric      *)
(*              calls.                                                     *)
(*   SpecPages  get_repositories over a chain of pages of the repository   *)
(*              list, each request answered with a 200 or with None.       *)
(***************************************************************************)
EXTENDS Integers, Sequences, FiniteSets, TLC

\* ------------------------------------------------------------------ bounds
NumRepos == 4          \* repositories handed to the scheduler
Today == 20            \* day number of datetime.now(timezone.utc).date()
MaxCalls == 3          \* calls SpecMetric makes on its accumulator
NumPages == 3          \* pages of the repository list
PageSize == 2          \* items on a page

\* ------------------------------------------------------- program constants
K == 3                 \* asyncio.Semaphore(3)
days_back == 14        \* generate_past_dates(days_back=14)

Repos == 1..NumRepos

\* --------------------------------------------------------------- dict.get
\* d.get(k, default) on a mapping modelled as a function.
Get(d, k, default) == IF k \in DOMAIN d THEN d[k] ELSE default

Max(a, b) == IF a >= b THEN a ELSE b

\* ------------------------------------------------------------- input data
\* f"{date}T00:00:00Z": the key format of the window and of the API.
Timestamp(day) == <<day, "T00:00:00Z">>

\* One item of the repository list endpoint.  Repository 1 carries no
\* forks_count, so repository.get(..., 0) takes its default.
Repository(r) ==
    IF r = 1
    THEN [name |-> r, stargazers_count |-> 2, watchers_count |-> 1]
    ELSE [name |-> r, stargazers_count |-> r % 3, watchers_count |-> r % 2,
          forks_count |-> (r + 1) % 2]

\* The JSON body of a 200 answer of .../traffic/views for repository r.
ViewsBody(r) ==
    IF r % 3 = 0
    THEN [count |-> 0, uniques |-> 0]                 \* no "views" key
    ELSE [count |-> r + 3, uniques |-> 2,
          views |-> << [timestamp |-> Timestamp(Today - r), count |-> r, uniques |-> 1],
                       [timestamp |-> Timestamp(Today - 1), count |-> 3, uniques |-> 1] >>]

\* The JSON body of a 200 answer of .../traffic/clones for repository r.
\* Repository 2 reports a day older than the window; one entry has no uniques.
ClonesBody(r) ==
    [count |-> r, uniques |-> 1,
     clones |-> IF r = 2
                THEN << [timestamp |-> Timestamp(Today - days_back - 1), count |-> 2, uniques |-> 2] >>
                ELSE << [timestamp |-> Timestamp(Today - 2), count |-> r] >>]

\* ------------------------------------------------------------ JSON values
\* What response.json() can hand back: a mapping or (for an array body) a list.
EmptyDict == [type |-> "dict", value |-> <<>>]
JsonDict(body) == [type |-> "dict", value |-> body]
JsonList == [type |-> "list", value |-> <<>>]

\* ------------------------------------------------------- RepositoryMetric
\* RepositoryMetric.__init__
RepositoryMetric(name) ==
    [name |-> name,
     total_metric_count |-> 0,
     max_metric_count |-> 0,
     repos_grouped_by_metric |-> <<>>]

\* Mutant: the item is put at the head of the list (insert(0, item) for append).
SetDefaultAppend_Prepend(d, key, item) ==
    IF key \in DOMAIN d
    THEN [d EXCEPT ![key] = <<item>> \o @]
    ELSE d @@ (key :> <<item>>)

\* d.setdefault(key, []).append(item)
SetDefaultAppend(d, key, item) ==
    IF key \in DOMAIN d
    THEN [d EXCEPT ![key] = Append(@, item)]
    ELSE d @@ (key :> <<item>>)

\* Mutant: the total is assigned, not added to (= for +=).
add_repository_metric_Overwrite(self, repository_name, metric_count) ==
    [self EXCEPT
        !.total_metric_count = metric_count,
        !.max_metric_count = Max(@, metric_count),
        !.repos_grouped_by_metric = SetDefaultAppend(@, metric_count, repository_name)]

\* Mutant: the maximum is the count of the last call (no max()).
add_repository_metric_LastIsMax(self, repository_name, metric_count) ==
    [self EXCEPT
        !.total_metric_count = @ + metric_count,
        !.max_metric_count = metric_count,
        !.repos_grouped_by_metric = SetDefaultAppend(@, metric_count, repository_name)]

\* RepositoryMetric.add_repository_metric
add_repository_metric(self, repository_name, metric_count) ==
    [self EXCEPT
        !.total_metric_count = @ + metric_count,
        !.max_metric_count = Max(@, metric_count),
        !.repos_grouped_by_metric = SetDefaultAppend(@, metric_count, repository_name)]

\* RepositoryMetric.get_top_repositories
get_top_repositories(self) ==
    Get(self.repos_grouped_by_metric, self.max_metric_count, <<>>)

\* ------------------------------------------------ RepositoryTrafficMetric
\* Mutant: the range of dates ends today (it starts one day late).
generate_past_dates_ThroughToday(today) ==
    [ts \in {Timestamp((today - days_back + 1) + day_offset) : day_offset \in 0..(days_back - 1)}
        |-> <<0, <<>>>>]

\* RepositoryTrafficMetric.generate_past_dates
generate_past_dates(today) ==
    [ts \in {Timestamp((today - days_back) + day_offset) : day_offset \in 0..(days_back - 1)}
        |-> <<0, <<>>>>]

\* RepositoryTrafficMetric.__init__
RepositoryTrafficMetric(metric_type, name) ==
    [metric_type |-> metric_type,
     name |-> name,
     total_metric_count |-> 0,
     max_metric_count |-> 0,
     repos_grouped_by_metric |-> <<>>,
     total_metric_at_timestamps |-> generate_past_dates(Today)]

\* Mutant: a timestamp that is no key yet replaces the window (a new dict
\* for setdefault).
TrafficEntry_NewWindow(window, key, repository_name, metric) ==
    LET metric_count == Get(metric, key, 0)
        metric_timestamp == metric.timestamp
        w == IF metric_timestamp \in DOMAIN window
             THEN window
             ELSE (metric_timestamp :> <<0, <<>>>>)
    IN [w EXCEPT ![metric_timestamp] =
            <<@[1] + metric_count, Append(@[2], <<repository_name, metric_count>>)>>]

\* Mutant: the total of the date is assigned, not added to (= for +=).
TrafficEntry_AssignsTotal(window, key, repository_name, metric) ==
    LET metric_count == Get(metric, key, 0)
        metric_timestamp == metric.timestamp
        w == IF metric_timestamp \in DOMAIN window
             THEN window
             ELSE window @@ (metric_timestamp :> <<0, <<>>>>)
    IN [w EXCEPT ![metric_timestamp] =
            <<metric_count, Append(@[2], <<repository_name, metric_count>>)>>]

\* Mutant: an entry whose timestamp is no key of the window is dropped.
TrafficEntry_SkipsUnknownDate(window, key, repository_name, metric) ==
    LET metric_count == Get(metric, key, 0)
        metric_timestamp == metric.timestamp
    IN IF metric_timestamp \in DOMAIN window
       THEN [window EXCEPT ![metric_timestamp] =
                <<@[1] + metric_count, Append(@[2], <<repository_name, metric_count>>)>>]
       ELSE window

\* One pass of the for loop of add_repository_traffic_metric over entry `metric`.
TrafficEntry(window, key, repository_name, metric) ==
    LET metric_count == Get(metric, key, 0)
        metric_timestamp == metric.timestamp
        w == IF metric_timestamp \in DOMAIN window
             THEN window
             ELSE window @@ (metric_timestamp :> <<0, <<>>>>)
    IN [w EXCEPT ![metric_timestamp] =
            <<@[1] + metric_count, Append(@[2], <<repository_name, metric_count>>)>>]

\* The for loop of add_repository_traffic_metric from entry i on:
\* <<total_metric_count, total_metric_at_timestamps>> when it ends.
RECURSIVE TrafficLoop(_, _, _, _, _, _)
TrafficLoop(entries, i, total, window, key, repository_name) ==
    IF i > Len(entries)
    THEN <<total, window>>
    ELSE TrafficLoop(entries, i + 1,
                     total + Get(entries[i], key, 0),
                     TrafficEntry(window, key, repository_name, entries[i]),
                     key, repository_name)

\* metric_data.get(...) raises AttributeError when metric_data is no mapping.
TrafficRaises(metric_data) == metric_data.type # "dict"

\* An element of the list that is no mapping (a number, a string, null):
\* metric.get(...) of line 114 raises AttributeError on it.
NotAMapping == [not_a_mapping |-> TRUE]
EntryRaises(metric) == "not_a_mapping" \in DOMAIN metric

\* The entries the for loop passes before it raises: all of them when none raises.
RECURSIVE EntriesBeforeRaise(_, _)
EntriesBeforeRaise(entries, i) ==
    IF i > Len(entries) \/ EntryRaises(entries[i]) THEN SubSeq(entries, 1, i - 1)
    ELSE EntriesBeforeRaise(entries, i + 1)

\* The for loop of add_repository_traffic_metric raises on an entry.
LoopRaises(self, metric_data) ==
    LET entries == Get(metric_data.value, self.metric_type, <<>>)
    IN \E i \in 1..Len(entries) : EntryRaises(entries[i])

\* The object after a call that raised in the loop: the entries before the
\* one that raised are in the window, line 122 was not reached.
add_repository_traffic_metric_raised(self, repository_name, metric_data) ==
    LET entries == Get(metric_data.value, self.metric_type, <<>>)
        done == TrafficLoop(EntriesBeforeRaise(entries, 1), 1, 0,
                            self.total_metric_at_timestamps, self.name, repository_name)
    IN [self EXCEPT !.total_metric_at_timestamps = done[2]]

\* Mutant: the base accumulator gets the value of the last entry (the loop
\* variable metric_count), not the sum.
add_repository_traffic_metric_LastEntry(self, repository_name, metric_data) ==
    LET entries == Get(metric_data.value, self.metric_type, <<>>)
        done == TrafficLoop(entries, 1, 0, self.total_metric_at_timestamps,
                            self.name, repository_name)
        last == IF Len(entries) = 0 THEN 0 ELSE Get(entries[Len(entries)], self.name, 0)
        base == add_repository_metric(self, repository_name, last)
    IN [base EXCEPT !.total_metric_at_timestamps = done[2]]

\* Mutant: the call on the base accumulator is inside the for loop (one
\* indentation too deep): once per entry, with the running total.
RECURSIVE BaseCallPerEntry(_, _, _, _, _)
BaseCallPerEntry(self, repository_name, entries, i, total) ==
    IF i > Len(entries) THEN self
    ELSE LET running == total + Get(entries[i], self.name, 0)
         IN BaseCallPerEntry(add_repository_metric(self, repository_name, running),
                             repository_name, entries, i + 1, running)

add_repository_traffic_metric_InLoop(self, repository_name, metric_data) ==
    LET entries == Get(metric_data.value, self.metric_type, <<>>)
        done == TrafficLoop(entries, 1, 0, self.total_metric_at_timestamps,
                            self.name, repository_name)
        base == BaseCallPerEntry(self, repository_name, entries, 1, 0)
    IN [base EXCEPT !.total_metric_at_timestamps = done[2]]

\* RepositoryTrafficMetric.add_repository_traffic_metric (metric_data a mapping)
add_repository_traffic_metric(self, repository_name, metric_data) ==
    LET entries == Get(metric_data.value, self.metric_type, <<>>)
        done == TrafficLoop(entries, 1, 0, self.total_metric_at_timestamps,
                            self.name, repository_name)
        base == add_repository_metric(self, repository_name, done[1])
    IN [base EXCEPT !.total_metric_at_timestamps = done[2]]

\* ------------------------------------------------ RepositoryMetricsTracker
\* The attribute names, in the order process_repository calls them.
Metrics == <<"stargazers", "watchers", "forks",
             "views", "unique_vistors", "clones", "unique_cloners">>

PlainMetrics == {"stargazers", "watchers", "forks"}
ViewsMetrics == {"views", "unique_vistors"}
ClonesMetrics == {"clones", "unique_cloners"}
TrafficMetrics == ViewsMetrics \cup ClonesMetrics
MetricNames == PlainMetrics \cup TrafficMetrics

\* RepositoryMetricsTracker.__init__
RepositoryMetricsTracker ==
    [stargazers |-> RepositoryMetric("stargazers_count"),
     watchers |-> RepositoryMetric("watchers_count"),
     forks |-> RepositoryMetric("forks_count"),
     views |-> RepositoryTrafficMetric("views", "count"),
     unique_vistors |-> RepositoryTrafficMetric("views", "uniques"),
     clones |-> RepositoryTrafficMetric("clones", "count"),
     unique_cloners |-> RepositoryTrafficMetric("clones", "uniques")]

\* ============================================ GitHubAPIHandler.get_response
\* GitHubAPIHandler.__init__(retries=3, delay=2); get_response(backoff_factor=2)
retries == 3
delay == 2
backoff_factor == 2

\* The two calls one unit runs concurrently (asyncio.gather).
Calls == {"views", "clones"}

RECURSIVE Pow(_, _)
Pow(b, e) == IF e = 0 THEN 1 ELSE b * Pow(b, e - 1)

\* int(text) for a header value, a string of decimal digits (most significant first).
RECURSIVE int(_)
int(digits) ==
    IF Len(digits) = 0 THEN 0
    ELSE 10 * int(SubSeq(digits, 1, Len(digits) - 1)) + digits[Len(digits)]

\* Mutant: a missing header counts as 1 (get(key, 1) for get(key, 0)).
HeaderInt_DefaultOne(response_headers, key) ==
    IF key \in DOMAIN response_headers THEN int(response_headers[key]) ELSE 1

\* int(response_headers.get(key, 0))
HeaderInt(response_headers, key) ==
    IF key \in DOMAIN response_headers THEN int(response_headers[key]) ELSE 0

\* What one attempt can receive: the status codes, the rate-limit headers and
\* the clock readings (calendar.timegm(time.gmtime())) the runs draw from.
StatusCodes == {200, 403}
HeaderInputs ==
    { <<>>,
      ("X-RateLimit-Remaining" :> <<4>>) @@ ("X-RateLimit-Reset" :> <<1, 5>>),
      ("X-RateLimit-Remaining" :> <<0>>) @@ ("X-RateLimit-Reset" :> <<1, 5>>),
      ("X-RateLimit-Remaining" :> <<0>>) @@ ("X-RateLimit-Reset" :> <<5>>) }
ClockInputs == {1, 10}

NoResponse == [status_code |-> 0, headers |-> <<>>]

\* A call before its first attempt is sent.
NewCall ==
    [pc |-> "not called", i |-> 0, requests |-> 0, response |-> NoResponse,
     current_time_epoch |-> 0, seconds_until_reset |-> 0, retry_delay |-> 0,
     result |-> "pending"]

\* "for i in range(total_attempts)" sends attempt i: await client.get(...)
SendAttempt(f, i) ==
    [f EXCEPT !.pc = "get", !.i = i, !.requests = @ + 1, !.response = NoResponse,
              !.current_time_epoch = 0, !.seconds_until_reset = 0, !.retry_delay = 0]

\* Mutant: one attempt too many (i <= retries for i < retries).
AfterFailedAttempt_OneMore(f) ==
    IF f.i <= retries
    THEN [f EXCEPT !.pc = "backoff",
                   !.retry_delay = delay * Pow(backoff_factor, f.i + 1)]
    ELSE [f EXCEPT !.pc = "returned", !.result = "None"]

\* Mutant: the exponent is the attempt index, not the index plus one.
AfterFailedAttempt_ExponentI(f) ==
    IF f.i < retries
    THEN [f EXCEPT !.pc = "backoff",
                   !.retry_delay = delay * Pow(backoff_factor, f.i)]
    ELSE [f EXCEPT !.pc = "returned", !.result = "None"]

\* Lines 66-73: after an attempt that did not return, sleep retry_delay when
\* an attempt remains, else leave the loop and return None.
AfterFailedAttempt(f) ==
    IF f.i < retries
    THEN [f EXCEPT !.pc = "backoff",
                   !.retry_delay = delay * Pow(backoff_factor, f.i + 1)]
    ELSE [f EXCEPT !.pc = "returned", !.result = "None"]

\* Mutant: the status is never checked, every attempt counts as failed.
AfterRateLimit_NoStatusCheck(f) == AfterFailedAttempt(f)

\* Mutant: after the rate-limit wait the next attempt is sent at once (a
\* "continue" after the wait, in place of falling through to the backoff).
AfterRateLimit_SkipsBackoff(f) ==
    IF f.response.status_code = 200
    THEN [f EXCEPT !.pc = "returned", !.result = "response"]
    ELSE IF f.pc = "rate limit" /\ f.i < retries
    THEN SendAttempt(f, f.i + 1)
    ELSE AfterFailedAttempt(f)

\* Lines 58-60: the status check that follows handle_rate_limit.
AfterRateLimit(f) ==
    IF f.response.status_code = 200
    THEN [f EXCEPT !.pc = "returned", !.result = "response"]
    ELSE AfterFailedAttempt(f)

\* handle_rate_limit, lines 88-92: must the call wait?
RateLimited(response_headers) ==
    HeaderInt(response_headers, "X-RateLimit-Remaining") <= 0

\* Mutant: the one-second buffer is left out.
SecondsUntilReset_NoBuffer(response_headers, current_time_epoch) ==
    HeaderInt(response_headers, "X-RateLimit-Reset") - current_time_epoch

\* handle_rate_limit, lines 94-100
SecondsUntilReset(response_headers, current_time_epoch) ==
    HeaderInt(response_headers, "X-RateLimit-Reset") - current_time_epoch + 1

\* Lines 50-60: client.get returned `response`; handle_rate_limit reads its
\* headers (and the clock) and either sleeps or lets the status be checked.
OnResponse(f, response, now) ==
    LET g == [f EXCEPT !.response = response]
    IN IF RateLimited(response.headers)
       THEN [g EXCEPT !.pc = "rate limit",
                      !.current_time_epoch = now,
                      !.seconds_until_reset = SecondsUntilReset(response.headers, now)]
       ELSE AfterRateLimit(g)

\* Mutant: no except clause, the exception leaves get_response.
OnException_Propagates(f) == [f EXCEPT !.pc = "returned", !.result = "raised"]

\* Lines 62-64: client.get raised; the except clause prints and goes on.
OnException(f) == AfterFailedAttempt(f)

\* ================================================================== state
VARIABLES
    phase,            \* where main() is: "gather", the report steps, "raised", "aborted"
    pc,               \* where each process_repository unit is
    semaphore,        \* asyncio.Semaphore(3): the free permits
    lock,             \* asyncio.Lock(): the unit holding it, 0 when free
    views_response,   \* per unit, what get_response(.../traffic/views) returned
    clones_repsonse,  \* per unit, what get_response(.../traffic/clones) returned
    step,             \* per unit, the tracker calls it has made inside the lock
    metric_tracker,   \* the shared RepositoryMetricsTracker
    calls,            \* history: the tracker calls made, <<unit, metric>>, in order
    printed,          \* what print_metrics read from the tracker (<<>> before it)
    fetch,            \* SpecFetch: per get_response call, where it is and what it holds
    metric,           \* SpecMetric: one RepositoryTrafficMetric object
    history,          \* SpecMetric: the calls made on it that returned, in order
    failed,           \* SpecMetric: the calls made on it that raised, in order
    pager             \* SpecPages: get_repositories, where it is and what it holds

schedvars == <<phase, pc, semaphore, lock, views_response, clones_repsonse, step,
               metric_tracker, calls, printed>>

\* The object of SpecMetric with the calls made on it.
metricvars == <<metric, history, failed>>

vars == <<phase, pc, semaphore, lock, views_response, clones_repsonse, step,
          metric_tracker, calls, printed, fetch, metric, history, failed, pager>>

\* What a get_response call hands to process_repository: the response of a
\* 200 (by what its body is) or None.
Well == "200"                \* 200, body a JSON object
NotJson == "200 not JSON"    \* 200, body on which response.json() raises
ListBody == "200 JSON list"  \* 200, body a JSON array
Results == {Well, NotJson, ListBody, "None"}
Resolved(x) == x \in Results

\* The results the runs draw from, per repository: every call can return a
\* well-formed 200; for some repositories a call can also fail (None), and a
\* 200 can carry a body that is no JSON (views) or a JSON array (clones).
ViewsResults(r) ==
    IF r % 4 = 2 THEN {Well, "None"}
    ELSE IF r % 4 = 0 THEN {Well, NotJson}
    ELSE {Well}

ClonesResults(r) ==
    IF r % 4 \in {1, 2} THEN {Well, "None"}
    ELSE IF r % 4 = 3 THEN {Well, ListBody}
    ELSE {Well}

\* response.json() if response else {}   (main.py 103-104), for a body
\* response.json() accepts.
JsonOf(response, body) ==
    IF response = "None" THEN EmptyDict
    ELSE IF response = ListBody THEN JsonList
    ELSE JsonDict(body)

views_json(r) == JsonOf(views_response[r], ViewsBody(r))
clones_json(r) == JsonOf(clones_repsonse[r], ClonesBody(r))

\* Mutant: .json() is called on the result without the None check.
JsonRaises_NoNoneCheck(r) ==
    \/ views_response[r] \in {NotJson, "None"}
    \/ clones_repsonse[r] \in {NotJson, "None"}

\* response.json() raises on a body that is no JSON.
JsonRaises(r) == views_response[r] = NotJson \/ clones_repsonse[r] = NotJson

\* ==================================================== one accumulator alone
\* The calls SpecMetric makes on one RepositoryTrafficMetric("views", ...)
\* object: the repository names, the metric counts and the traffic payloads
\* it draws from.
RepositoryNames == {"repo-a", "repo-b"}
MetricCounts == {-1, 0, 1, 2}

\* {"views": [{"timestamp": ..., "count": 5, "uniques": 3}]}, yesterday
OneEntryPayload ==
    [views |-> << [timestamp |-> Timestamp(Today - 1), count |-> 5, uniques |-> 3] >>]

\* Two days of one repository, 3 and 4 views.
TwoDaysPayload ==
    [views |-> << [timestamp |-> Timestamp(Today - 3), count |-> 3, uniques |-> 1],
                  [timestamp |-> Timestamp(Today - 2), count |-> 4, uniques |-> 1] >>]

\* An entry of today, which generate_past_dates does not cover, and without
\* "count"; and a payload of the other traffic kind.
TodayPayload ==
    [views |-> << [timestamp |-> Timestamp(Today), uniques |-> 2] >>]
ClonesPayload ==
    [clones |-> << [timestamp |-> Timestamp(Today - 1), count |-> 1, uniques |-> 1] >>]

\* {"views": [5]}: the list under the traffic kind holds no mapping.
MalformedPayload == [views |-> << NotAMapping >>]

\* {"views": [{...}, 5]}: a well-formed entry, then an element that is no
\* mapping.
PartlyMalformedPayload ==
    [views |-> << [timestamp |-> Timestamp(Today - 4), count |-> 2, uniques |-> 1],
                  NotAMapping >>]

TrafficPayloads ==
    {<<>>, OneEntryPayload, TwoDaysPayload, TodayPayload, ClonesPayload,
     MalformedPayload, PartlyMalformedPayload}

\* metric.add_repository_metric(repository_name, metric_count)
AddRepositoryMetric(repository_name, metric_count) ==
    /\ Len(history) + Len(failed) < MaxCalls
    /\ metric' = add_repository_metric(metric, repository_name, metric_count)
    /\ history' = Append(history, [call |-> "add_repository_metric",
                                   repository_name |-> repository_name,
                                   metric_count |-> metric_count])
    /\ UNCHANGED failed
    /\ UNCHANGED <<schedvars, fetch, pager>>

\* metric.add_repository_traffic_metric(repository_name, metric_data): it
\* returns, or an entry of the payload makes it raise.
AddRepositoryTrafficMetric(repository_name, metric_data) ==
    /\ Len(history) + Len(failed) < MaxCalls
    /\ LET call == [call |-> "add_repository_traffic_metric",
                    repository_name |-> repository_name,
                    metric_data |-> metric_data]
       IN IF LoopRaises(metric, JsonDict(metric_data))
          THEN /\ metric' = add_repository_traffic_metric_raised(
                                metric, repository_name, JsonDict(metric_data))
               /\ failed' = Append(failed, call)
               /\ UNCHANGED history
          ELSE /\ metric' = add_repository_traffic_metric(
                                metric, repository_name, JsonDict(metric_data))
               /\ history' = Append(history, call)
               /\ UNCHANGED failed
    /\ UNCHANGED <<schedvars, fetch, pager>>

\* ======================================================== get_repositories
\* github_user.user_name, and the owners the listed repositories can have.
user_name == "user"
Logins == {user_name, "other"}

\* Item n of the repository list endpoint.
Item(n, login) == [name |-> n, owner |-> [login |-> login]]

\* The Link header of page p of NumPages: the relations GitHub sends, each
\* "<url>; rel=...", separated by commas; <<>> when there is one page only
\* (no header).  A URL is the number of its page.
LinkHeader(p) ==
    (IF p > 1 THEN << [url |-> p - 1, rel |-> "prev"] >> ELSE <<>>)
    \o (IF p < NumPages
        THEN << [url |-> p + 1, rel |-> "next"], [url |-> NumPages, rel |-> "last"] >>
        ELSE <<>>)
    \o (IF p > 1 THEN << [url |-> 1, rel |-> "first"] >> ELSE <<>>)

\* The chains of pages the runs draw from: NumPages pages of PageSize items,
\* every item owned by the user or by somebody else; the last page comes with
\* its Link header (prev and first only) or without any.
Sites ==
    { [p \in 1..NumPages |->
          [items |-> [k \in 1..PageSize |-> Item((p - 1) * PageSize + k, owners[p][k])],
           link |-> IF p = NumPages /\ ~last_has_header THEN <<>> ELSE LinkHeader(p)]] :
      owners \in [1..NumPages -> [1..PageSize -> Logins]],
      last_has_header \in BOOLEAN }

\* Mutant: the link with rel="last" is taken for the next page.
RECURSIVE next_url_Last(_, _)
next_url_Last(urls, k) ==
    IF k > Len(urls) THEN 0
    ELSE IF urls[k].rel = "last" THEN urls[k].url
    ELSE next_url_Last(urls, k + 1)

\* Lines 48-54: the URL of the first link with rel="next", None (0) without one.
RECURSIVE next_url(_, _)
next_url(urls, k) ==
    IF k > Len(urls) THEN 0
    ELSE IF urls[k].rel = "next" THEN urls[k].url
    ELSE next_url(urls, k + 1)

\* Mutant: the list is returned as it was fetched.
filtered_repositories_Unfiltered(user_repositories) == user_repositories

\* Lines 64-67: the items whose owner is the user.
filtered_repositories(user_repositories) ==
    SelectSeq(user_repositories, LAMBDA repo : repo.owner.login = user_name)

\* get_repositories before it is called, over the pages of `site`.
NewPager(site) ==
    [site |-> site, pc |-> "not called", github_repos_url |-> 0,
     user_repositories |-> <<>>, requested |-> <<>>, responses |-> <<>>,
     result |-> <<>>]

\* Mutant: the items of a page are put in front of the list (no extend).
AfterPage_Prepend(g, response) ==
    LET page == g.site[g.github_repos_url]
        response_json == IF response = "None" THEN <<>> ELSE page.items
        link_header == IF response = "None" THEN <<>> ELSE page.link
        url == IF Len(link_header) > 0 THEN next_url(link_header, 1) ELSE 0
        repos == response_json \o g.user_repositories
        h == [g EXCEPT !.user_repositories = repos,
                       !.responses = Append(@, response),
                       !.github_repos_url = url]
    IN IF url # 0
       THEN [h EXCEPT !.requested = Append(@, url)]
       ELSE [h EXCEPT !.pc = "returned", !.result = filtered_repositories(repos)]

\* Mutant: a page that failed is skipped and the page after it requested.
AfterPage_SkipsFailedPage(g, response) ==
    LET page == g.site[g.github_repos_url]
        response_json == IF response = "None" THEN <<>> ELSE page.items
        link_header == page.link
        url == IF Len(link_header) > 0 THEN next_url(link_header, 1) ELSE 0
        repos == g.user_repositories \o response_json
        h == [g EXCEPT !.user_repositories = repos,
                       !.responses = Append(@, response),
                       !.github_repos_url = url]
    IN IF url # 0
       THEN [h EXCEPT !.requested = Append(@, url)]
       ELSE [h EXCEPT !.pc = "returned", !.result = filtered_repositories(repos)]

\* Lines 40-69 once get_response has returned `response` ("200" or "None")
\* for the current URL: the items are appended, the Link header decides the
\* next URL, and without one the loop ends, the list is filtered and returned.
AfterPage(g, response) ==
    LET page == g.site[g.github_repos_url]
        response_json == IF response = "None" THEN <<>> ELSE page.items
        link_header == IF response = "None" THEN <<>> ELSE page.link
        url == IF Len(link_header) > 0 THEN next_url(link_header, 1) ELSE 0
        repos == g.user_repositories \o response_json
        h == [g EXCEPT !.user_repositories = repos,
                       !.responses = Append(@, response),
                       !.github_repos_url = url]
    IN IF url # 0
       THEN [h EXCEPT !.requested = Append(@, url)]
       ELSE [h EXCEPT !.pc = "returned", !.result = filtered_repositories(repos)]

\* get_repositories is called: the first page is requested (line 38).
CallGetRepositories ==
    /\ pager.pc = "not called"
    /\ pager' = [pager EXCEPT !.pc = "get", !.github_repos_url = 1,
                              !.requested = <<1>>]
    /\ UNCHANGED <<schedvars, fetch, metricvars>>

\* get_response returns the 200 response of the requested page.
PageFetched ==
    /\ pager.pc = "get"
    /\ pager' = AfterPage(pager, "200")
    /\ UNCHANGED <<schedvars, fetch, metricvars>>

\* get_response returns None for the requested page.
PageFails ==
    /\ pager.pc = "get"
    /\ pager' = AfterPage(pager, "None")
    /\ UNCHANGED <<schedvars, fetch, metricvars>>

\* ============================================================ initial states
\* main() at asyncio.gather(*tasks), no get_response call made.
InitMain ==
    /\ phase = "gather"
    /\ pc = [r \in Repos |-> "waiting"]
    /\ semaphore = K
    /\ lock = 0
    /\ views_response = [r \in Repos |-> "not started"]
    /\ clones_repsonse = [r \in Repos |-> "not started"]
    /\ step = [r \in Repos |-> 0]
    /\ metric_tracker = RepositoryMetricsTracker
    /\ calls = <<>>
    /\ printed = <<>>
    /\ fetch = [c \in Calls |-> NewCall]

\* SpecMetric: one RepositoryTrafficMetric object, fresh.
InitMetric ==
    /\ InitMain
    /\ metric \in {RepositoryTrafficMetric("views", "count"),
                   RepositoryTrafficMetric("views", "uniques")}
    /\ history = <<>>
    /\ failed = <<>>
    /\ pager = NewPager(CHOOSE site \in Sites : TRUE)

\* SpecPages: get_repositories over one of the chains, not called yet.
InitPages ==
    /\ InitMain
    /\ metric = RepositoryTrafficMetric("views", "count")
    /\ history = <<>>
    /\ failed = <<>>
    /\ pager \in {NewPager(site) : site \in Sites}

Init ==
    /\ InitMain
    /\ metric = RepositoryTrafficMetric("views", "count")
    /\ history = <<>>
    /\ failed = <<>>
    /\ pager = NewPager(CHOOSE site \in Sites :
                            \A p \in 1..NumPages, k \in 1..PageSize :
                                site[p].items[k].owner.login = user_name)

\* ------------------------------------------------------ process_repository
\* Mutant: the permit count is not looked at.
SemaphoreAcquirable_NoLimit(r) ==
    \A q \in Repos : q < r => pc[q] # "waiting"

\* Mutant: a unit is let in when the count is zero too (>= for >).
SemaphoreAcquirable_AtZero(r) ==
    /\ semaphore >= 0
    /\ \A q \in Repos : q < r => pc[q] # "waiting"

\* "async with semaphore": the permit is free and no earlier unit waits for
\* one (asyncio wakes waiters first come, first served; the units start in
\* list order).  Then asyncio.gather starts both get_response calls.
SemaphoreAcquirable(r) ==
    /\ semaphore > 0
    /\ \A q \in Repos : q < r => pc[q] # "waiting"

Admit(r) ==
    /\ pc[r] = "waiting"
    /\ SemaphoreAcquirable(r)
    /\ semaphore' = semaphore - 1
    /\ pc' = [pc EXCEPT ![r] = "fetching"]
    /\ views_response' = [views_response EXCEPT ![r] = "in flight"]
    /\ clones_repsonse' = [clones_repsonse EXCEPT ![r] = "in flight"]
    /\ UNCHANGED <<phase, lock, step, metric_tracker, calls, printed>>
    /\ UNCHANGED <<fetch, metricvars, pager>>

\* A get_response call of unit r returns: a 200 response or None.
ViewsReturn(r, result) ==
    /\ pc[r] = "fetching"
    /\ views_response[r] = "in flight"
    /\ views_response' = [views_response EXCEPT ![r] = result]
    /\ UNCHANGED <<phase, pc, semaphore, lock, clones_repsonse, step,
                   metric_tracker, calls, printed>>
    /\ UNCHANGED <<fetch, metricvars, pager>>

ClonesReturn(r, result) ==
    /\ pc[r] = "fetching"
    /\ clones_repsonse[r] = "in flight"
    /\ clones_repsonse' = [clones_repsonse EXCEPT ![r] = result]
    /\ UNCHANGED <<phase, pc, semaphore, lock, views_response, step,
                   metric_tracker, calls, printed>>
    /\ UNCHANGED <<fetch, metricvars, pager>>

\* Mutant: the exception leaves without the permit being given back.
Raise_KeepsPermit(r) ==
    /\ pc' = [pc EXCEPT ![r] = "failed"]
    /\ semaphore' = semaphore
    /\ lock' = IF lock = r THEN 0 ELSE lock
    /\ phase' = IF phase = "gather" THEN "raised" ELSE phase

\* An exception leaves process_repository: both "async with" blocks release
\* what they hold, and asyncio.gather(*tasks) hands the first exception to main.
Raise(r) ==
    /\ pc' = [pc EXCEPT ![r] = "failed"]
    /\ semaphore' = semaphore + 1
    /\ lock' = IF lock = r THEN 0 ELSE lock
    /\ phase' = IF phase = "gather" THEN "raised" ELSE phase

\* Mutant: the unit goes on when the views call has returned (the clones
\* call is not awaited).
GatherDone_ViewsOnly(r) == Resolved(views_response[r])

\* The gather of the two calls is over: lines 103-104 parse the bodies.
GatherDone(r) ==
    /\ Resolved(views_response[r])
    /\ Resolved(clones_repsonse[r])

\* Mutant: the lock is taken whether or not it is held.
LockAcquirable_Always(r) == TRUE

\* "async with lock": an uncontended acquire does not suspend the unit.
LockAcquirable(r) == lock = 0

\* The unit resumes after the gather: it parses both bodies and goes on to
\* the lock, which it takes at once when it is free and waits for otherwise.
ParseResponses(r) ==
    /\ pc[r] = "fetching"
    /\ GatherDone(r)
    /\ IF JsonRaises(r)
       THEN Raise(r)
       ELSE IF LockAcquirable(r)
       THEN /\ pc' = [pc EXCEPT ![r] = "locked"]
            /\ lock' = r
            /\ UNCHANGED <<phase, semaphore>>
       ELSE /\ pc' = [pc EXCEPT ![r] = "parsed"]
            /\ UNCHANGED <<phase, semaphore, lock>>
    /\ UNCHANGED <<views_response, clones_repsonse, step, metric_tracker,
                   calls, printed>>
    /\ UNCHANGED <<fetch, metricvars, pager>>

\* A unit waiting for the lock gets it.
AcquireLock(r) ==
    /\ pc[r] = "parsed"
    /\ LockAcquirable(r)
    /\ lock' = r
    /\ pc' = [pc EXCEPT ![r] = "locked"]
    /\ UNCHANGED <<phase, semaphore, views_response, clones_repsonse, step,
                   metric_tracker, calls, printed>>
    /\ UNCHANGED <<fetch, metricvars, pager>>

\* The k-th tracker call of lines 108-117 for unit r: the argument it passes.
CallArgument(r, m) ==
    IF m \in PlainMetrics
    THEN Get(Repository(r), metric_tracker[m].name, 0)
    ELSE IF m \in ViewsMetrics THEN views_json(r) ELSE clones_json(r)

CallRaises(r, m) == m \in TrafficMetrics /\ TrafficRaises(CallArgument(r, m))

\* The accumulator m after that call.
CallResult(r, m) ==
    IF m \in PlainMetrics
    THEN add_repository_metric(metric_tracker[m], Repository(r).name, CallArgument(r, m))
    ELSE add_repository_traffic_metric(metric_tracker[m], Repository(r).name,
                                       CallArgument(r, m))

\* The end of both "async with" blocks, after the last call: the unit is done.
LastCall(r) == step[r] + 1 = Len(Metrics)

Record(r) ==
    /\ pc[r] = "locked"
    /\ step[r] < Len(Metrics)
    /\ LET m == Metrics[step[r] + 1]
       IN IF CallRaises(r, m)
          THEN /\ Raise(r)
               /\ UNCHANGED <<step, metric_tracker, calls>>
          ELSE /\ metric_tracker' = [metric_tracker EXCEPT ![m] = CallResult(r, m)]
               /\ step' = [step EXCEPT ![r] = @ + 1]
               /\ calls' = Append(calls, <<r, m>>)
               /\ IF LastCall(r)
                  THEN /\ lock' = 0
                       /\ semaphore' = semaphore + 1
                       /\ pc' = [pc EXCEPT ![r] = "done"]
                  ELSE UNCHANGED <<pc, semaphore, lock>>
               /\ UNCHANGED phase
    /\ UNCHANGED <<views_response, clones_repsonse, printed>>
    /\ UNCHANGED <<fetch, metricvars, pager>>

\* -------------------------------------------------------------------- main
\* Mutant: main goes on as soon as one unit is done.
AllDone_AnyDone == \E r \in Repos : pc[r] = "done"

\* await asyncio.gather(*tasks) returns once every unit is done.
AllDone == \A r \in Repos : pc[r] = "done"

GatherReturns ==
    /\ phase = "gather"
    /\ AllDone
    /\ phase' = "print_metrics"
    /\ UNCHANGED <<pc, semaphore, lock, views_response, clones_repsonse, step,
                   metric_tracker, calls, printed>>
    /\ UNCHANGED <<fetch, metricvars, pager>>

\* A unit raised: the exception leaves main, no report is made, and
\* asyncio.run cancels the units still waiting at an await.
Cancelled(r) == pc[r] \in {"waiting", "fetching", "parsed"}

MainAborts ==
    /\ phase = "raised"
    /\ lock = 0
    /\ phase' = "aborted"
    /\ pc' = [r \in Repos |-> IF Cancelled(r) THEN "cancelled" ELSE pc[r]]
    /\ semaphore' = semaphore + Cardinality({r \in Repos : pc[r] \in {"fetching", "parsed"}})
    /\ UNCHANGED <<lock, views_response, clones_repsonse, step, metric_tracker,
                   calls, printed>>
    /\ UNCHANGED <<fetch, metricvars, pager>>

\* metric_tracker.print_metrics()
PrintMetrics ==
    /\ phase = "print_metrics"
    /\ printed' = metric_tracker
    /\ phase' = "html"
    /\ UNCHANGED <<pc, semaphore, lock, views_response, clones_repsonse, step,
                   metric_tracker, calls>>
    /\ UNCHANGED <<fetch, metricvars, pager>>

\* generate_html_for_metrics, then the CSV reports: they read the tracker.
GenerateHtml ==
    /\ phase = "html"
    /\ phase' = "csv"
    /\ UNCHANGED <<pc, semaphore, lock, views_response, clones_repsonse, step,
                   metric_tracker, calls, printed>>
    /\ UNCHANGED <<fetch, metricvars, pager>>

GenerateCsv ==
    /\ phase = "csv"
    /\ phase' = "end"
    /\ UNCHANGED <<pc, semaphore, lock, views_response, clones_repsonse, step,
                   metric_tracker, calls, printed>>
    /\ UNCHANGED <<fetch, metricvars, pager>>

Next ==
    \/ \E r \in Repos : Admit(r)
    \/ \E r \in Repos : \E result \in ViewsResults(r) : ViewsReturn(r, result)
    \/ \E r \in Repos : \E result \in ClonesResults(r) : ClonesReturn(r, result)
    \/ \E r \in Repos : ParseResponses(r)
    \/ \E r \in Repos : AcquireLock(r)
    \/ \E r \in Repos : Record(r)
    \/ GatherReturns
    \/ MainAborts
    \/ PrintMetrics
    \/ GenerateHtml
    \/ GenerateCsv

Spec == Init /\ [][Next]_vars

\* What the event loop guarantees: a unit that can go on is resumed (its
\* permit or the lock is handed to it, its get_response calls return, its
\* code between two awaits runs), and so is main.
UnitStep(r) ==
    \/ Admit(r)
    \/ \E result \in ViewsResults(r) : ViewsReturn(r, result)
    \/ \E result \in ClonesResults(r) : ClonesReturn(r, result)
    \/ ParseResponses(r)
    \/ AcquireLock(r)
    \/ Record(r)

MainStep ==
    \/ GatherReturns
    \/ MainAborts
    \/ PrintMetrics
    \/ GenerateHtml
    \/ GenerateCsv

FairSpec ==
    /\ Spec
    /\ \A r \in Repos : WF_vars(UnitStep(r))
    /\ WF_vars(MainStep)

\* ------------------------------------------------ one accumulator, any calls
NextMetric ==
    \/ \E repository_name \in RepositoryNames, metric_count \in MetricCounts :
          AddRepositoryMetric(repository_name, metric_count)
    \/ \E repository_name \in RepositoryNames, metric_data \in TrafficPayloads :
          AddRepositoryTrafficMetric(repository_name, metric_data)

SpecMetric == InitMetric /\ [][NextMetric]_vars

\* ------------------------------------------ get_repositories over its pages
NextPages ==
    \/ CallGetRepositories
    \/ PageFetched
    \/ PageFails

SpecPages == InitPages /\ [][NextPages]_vars

\* ------------------------------------------------- get_response, step by step
\* get_response is called: attempt 0 is sent.
CallGetResponse(c) ==
    /\ fetch[c].pc = "not called"
    /\ fetch' = [fetch EXCEPT ![c] = SendAttempt(@, 0)]
    /\ UNCHANGED <<schedvars, metricvars, pager>>

\* The attempt in flight is answered.
GetReturns(c, status_code, headers, now) ==
    /\ fetch[c].pc = "get"
    /\ fetch' = [fetch EXCEPT ![c] =
                    OnResponse(@, [status_code |-> status_code, headers |-> headers], now)]
    /\ UNCHANGED <<schedvars, metricvars, pager>>

\* The attempt in flight fails in the transport: client.get raises.
GetRaises(c) ==
    /\ fetch[c].pc = "get"
    /\ fetch' = [fetch EXCEPT ![c] = OnException(@)]
    /\ UNCHANGED <<schedvars, metricvars, pager>>

\* asyncio.sleep(seconds_until_reset) of handle_rate_limit is over.
RateLimitSleepEnds(c) ==
    /\ fetch[c].pc = "rate limit"
    /\ fetch' = [fetch EXCEPT ![c] = AfterRateLimit(@)]
    /\ UNCHANGED <<schedvars, metricvars, pager>>

\* asyncio.sleep(retry_delay) is over: the loop sends the next attempt.
BackoffSleepEnds(c) ==
    /\ fetch[c].pc = "backoff"
    /\ fetch' = [fetch EXCEPT ![c] = SendAttempt(@, @.i + 1)]
    /\ UNCHANGED <<schedvars, metricvars, pager>>

CallStep(c) ==
    \/ CallGetResponse(c)
    \/ \E status_code \in StatusCodes, headers \in HeaderInputs, now \in ClockInputs :
          GetReturns(c, status_code, headers, now)
    \/ GetRaises(c)
    \/ RateLimitSleepEnds(c)
    \/ BackoffSleepEnds(c)

NextFetch ==
    \/ \E c \in Calls : CallGetResponse(c)
    \/ \E c \in Calls, status_code \in StatusCodes, headers \in HeaderInputs,
          now \in ClockInputs : GetReturns(c, status_code, headers, now)
    \/ \E c \in Calls : GetRaises(c)
    \/ \E c \in Calls : RateLimitSleepEnds(c)
    \/ \E c \in Calls : BackoffSleepEnds(c)

SpecFetch == Init /\ [][NextFetch]_vars

\* Every request is answered or fails and every sleep ends.
FairFetch == SpecFetch /\ \A c \in Calls : WF_vars(CallStep(c))

\* ================================================================= claims
ReportPhases == {"print_metrics", "html", "csv", "end"}

RECURSIVE SumEntries(_, _, _)
SumEntries(entries, key, i) ==
    IF i > Len(entries) THEN 0
    ELSE Get(entries[i], key, 0) + SumEntries(entries, key, i + 1)

\* What repository r reports for metric m in this run: its descriptor's count,
\* or the sum over the traffic entries it was served (nothing when the call
\* returned None).
Reported(r, m) ==
    CASE m = "stargazers" -> Get(Repository(r), "stargazers_count", 0)
      [] m = "watchers" -> Get(Repository(r), "watchers_count", 0)
      [] m = "forks" -> Get(Repository(r), "forks_count", 0)
      [] m = "views" ->
            IF views_response[r] = Well
            THEN SumEntries(Get(ViewsBody(r), "views", <<>>), "count", 1) ELSE 0
      [] m = "unique_vistors" ->
            IF views_response[r] = Well
            THEN SumEntries(Get(ViewsBody(r), "views", <<>>), "uniques", 1) ELSE 0
      [] m = "clones" ->
            IF clones_repsonse[r] = Well
            THEN SumEntries(Get(ClonesBody(r), "clones", <<>>), "count", 1) ELSE 0
      [] m = "unique_cloners" ->
            IF clones_repsonse[r] = Well
            THEN SumEntries(Get(ClonesBody(r), "clones", <<>>), "uniques", 1) ELSE 0

RECURSIVE SumReported(_, _)
SumReported(m, n) == IF n = 0 THEN 0 ELSE Reported(n, m) + SumReported(m, n - 1)

\* Repository r is listed under value v of metric m.
GroupedUnder(r, m, v) ==
    LET g == metric_tracker[m].repos_grouped_by_metric
    IN v \in DOMAIN g /\ \E i \in 1..Len(g[v]) : g[v][i] = r

\* Repository r has an entry in some date of the window of traffic metric m.
InWindow(r, m) ==
    LET w == metric_tracker[m].total_metric_at_timestamps
    IN \E ts \in DOMAIN w : \E i \in 1..Len(w[ts][2]) : w[ts][2][i][1] = r

InFlight == {r \in Repos : pc[r] \in {"fetching", "parsed", "locked"}}

\* C1: once the run has passed the fan-in, the total of each of the seven
\* metrics is the sum of that metric over all N repositories, whatever the
\* order in which the units were served and finished.
C1_TotalsAreSums ==
    phase \in ReportPhases =>
        \A m \in MetricNames :
            metric_tracker[m].total_metric_count = SumReported(m, NumRepos)

\* C1 witness: a finished run in which the third unit recorded first and a
\* repository with traffic was counted.
C1_Witness ==
    /\ phase = "end"
    /\ calls[1][1] = 3
    /\ views_response[1] = Well
    /\ metric_tracker["views"].total_metric_count > 0

\* C2: at most K units are past the semaphore and not yet finished.
C2_AtMostKInFlight == Cardinality(InFlight) <= K

\* C2 witness: K units in flight, one of them making its calls, while the
\* last unit waits for a permit.
C2_Witness ==
    /\ Cardinality(InFlight) = K
    /\ pc[NumRepos] = "waiting"
    /\ \E r \in Repos : pc[r] = "locked"

\* The calls of one unit are adjacent in the history of tracker calls.
CallsInBlocks ==
    \A i, j \in 1..Len(calls) :
        (i < j /\ calls[i][1] = calls[j][1]) =>
            \A k \in i..j : calls[k][1] = calls[i][1]

\* C3: the tracker changes only by a call of the unit that holds the lock,
\* at most one unit is in its mutation phase, and the calls of one unit form
\* one block of the history, the seven of a finished unit in the order of
\* lines 108-117.
C3_MutationUnderLock ==
    /\ [](/\ \A r, q \in Repos : (pc[r] = "locked" /\ pc[q] = "locked") => r = q
          /\ \A r \in Repos : pc[r] = "locked" <=> lock = r
          /\ CallsInBlocks
          /\ \A r \in Repos : pc[r] = "done" =>
                \E i \in 1..Len(calls) :
                    /\ i + 6 <= Len(calls)
                    /\ \A k \in 0..6 : calls[i + k] = <<r, Metrics[k + 1]>>)
    /\ [][metric_tracker' # metric_tracker =>
            /\ lock # 0
            /\ pc[lock] = "locked"
            /\ Len(calls') = Len(calls) + 1
            /\ calls'[Len(calls')][1] = lock]_vars

\* C3 witness: a unit is in the middle of its seven calls while another has
\* parsed its responses and waits for the lock, after a first block is complete.
C3_Witness ==
    \E r, q \in Repos :
        /\ pc[r] = "locked" /\ step[r] = 3
        /\ pc[q] = "parsed"
        /\ Len(calls) = 10

\* C4: the reports read the tracker only when every unit has finished its
\* seven calls, and the tracker no longer changes once it has been read.
C4_ReportAfterBarrier ==
    phase \in ReportPhases =>
        /\ \A r \in Repos : pc[r] = "done" /\ step[r] = Len(Metrics)
        /\ lock = 0
        /\ Len(calls) = Len(Metrics) * NumRepos
        /\ phase # "print_metrics" => printed = metric_tracker

\* C4 witness: the CSV step of a run, after the tracker was printed.
C4_Witness ==
    /\ phase = "csv"
    /\ printed = metric_tracker
    /\ metric_tracker["stargazers"].total_metric_count > 0

\* C5: a call that returned None is read as the empty payload: the unit does
\* not raise because of it (only a 200 whose body cannot be processed makes a
\* unit raise and the run abort), and the finished unit is listed under its
\* stargazer, watcher and fork counts and under 0, with no window entry, in
\* the metrics of the failed call.
C5_FailedFetchIsEmptyPayload ==
    /\ \A r \in Repos :
        /\ pc[r] = "failed" =>
              (views_response[r] = NotJson \/ clones_repsonse[r] = ListBody)
        /\ pc[r] = "done" =>
              /\ GroupedUnder(r, "stargazers", Get(Repository(r), "stargazers_count", 0))
              /\ GroupedUnder(r, "watchers", Get(Repository(r), "watchers_count", 0))
              /\ GroupedUnder(r, "forks", Get(Repository(r), "forks_count", 0))
              /\ views_response[r] = "None" =>
                    \A m \in ViewsMetrics : GroupedUnder(r, m, 0) /\ ~InWindow(r, m)
              /\ clones_repsonse[r] = "None" =>
                    \A m \in ClonesMetrics : GroupedUnder(r, m, 0) /\ ~InWindow(r, m)
    /\ phase \in {"raised", "aborted"} => \E r \in Repos : pc[r] = "failed"

\* C5 witness: a finished run in which both calls of one unit returned None.
C5_Witness ==
    /\ phase = "end"
    /\ \E r \in Repos : views_response[r] = "None" /\ clones_repsonse[r] = "None"

\* C6: a failure while one repository is processed (a call returning None, or
\* an error while its responses are handled) stops no other unit and the run
\* still reaches the reports: no unit is ever cancelled and main never aborts.
C6_FailureStopsNoOtherUnit ==
    /\ phase # "aborted"
    /\ \A r \in Repos : pc[r] # "cancelled"

\* C7: every call of get_response ends; it sends at most 1 + retries
\* requests, exactly that many when it returns None, and returns either the
\* response of a 200 or None.
C7_FetchTerminates ==
    /\ [](\A c \in Calls :
            /\ fetch[c].requests <= 1 + retries
            /\ fetch[c].pc = "returned" =>
                  \/ fetch[c].result = "response" /\ fetch[c].response.status_code = 200
                  \/ fetch[c].result = "None" /\ fetch[c].requests = 1 + retries
                                              /\ fetch[c].response.status_code # 200)
    /\ <>(\A c \in Calls : fetch[c].pc = "returned")

\* C7 witness: a call that returned None after its last attempt was answered
\* with a status other than 200.
C7_Witness ==
    \E c \in Calls :
        /\ fetch[c].result = "None"
        /\ fetch[c].requests = 4
        /\ fetch[c].response.status_code = 403

\* The attempt of call c in flight ends in this step without a response.
AttemptRaised(c) ==
    /\ fetch[c].pc = "get"
    /\ fetch'[c].pc # "get"
    /\ fetch'[c].response.status_code = 0

\* C8: an attempt that raises does not end the loop: when attempts remain the
\* call goes to its backoff sleep and then sends the next attempt, after the
\* last attempt it returns None, and no exception ever leaves get_response.
C8_ExceptionKeepsLoop ==
    /\ [](\A c \in Calls : fetch[c].result # "raised")
    /\ [][\A c \in Calls :
            /\ AttemptRaised(c) =>
                  IF fetch[c].i < retries
                  THEN /\ fetch'[c].pc = "backoff"
                       /\ fetch'[c].result = "pending"
                  ELSE /\ fetch'[c].pc = "returned"
                       /\ fetch'[c].result = "None"
            /\ (fetch[c].pc = "backoff" /\ fetch'[c] # fetch[c]) =>
                  /\ fetch'[c].pc = "get"
                  /\ fetch'[c].i = fetch[c].i + 1
                  /\ fetch'[c].requests = fetch[c].requests + 1]_vars

\* C8 witness: the third attempt is in its backoff sleep after client.get raised.
C8_Witness ==
    \E c \in Calls :
        /\ fetch[c].pc = "backoff"
        /\ fetch[c].i = 2
        /\ fetch[c].response.status_code = 0

\* C9: a call whose attempt received a 200 is either in the rate-limit wait
\* for that response or has returned it: it is never in a backoff sleep and
\* never sends another request.
C9_Status200Returns ==
    \A c \in Calls :
        fetch[c].response.status_code = 200 =>
            /\ fetch[c].pc \in {"rate limit", "returned"}
            /\ fetch[c].pc = "returned" => fetch[c].result = "response"
            /\ fetch[c].retry_delay = 0
            /\ fetch[c].requests = fetch[c].i + 1

\* C9 witness: a 200 on the second attempt, returned after its rate-limit wait.
C9_Witness ==
    \E c \in Calls :
        /\ fetch[c].result = "response"
        /\ fetch[c].i = 1
        /\ fetch[c].seconds_until_reset = 6

\* The attempt of call c in flight is answered in this step.
AttemptAnswered(c) ==
    /\ fetch[c].pc = "get"
    /\ fetch'[c].response.status_code # 0

\* C10: when an attempt is answered, with 200 or not and on the last attempt
\* too, and the remaining quota of the answer is <= 0, the call sleeps
\* reset - now + 1 before it does anything else (it has not returned);
\* with reset = now + 5 that is 6.  With quota left it does not sleep.
C10_RateLimitWait ==
    [][\A c \in Calls :
        AttemptAnswered(c) =>
            LET h == fetch'[c].response.headers
                remaining == IF "X-RateLimit-Remaining" \in DOMAIN h
                             THEN int(h["X-RateLimit-Remaining"]) ELSE 0
                reset == IF "X-RateLimit-Reset" \in DOMAIN h
                         THEN int(h["X-RateLimit-Reset"]) ELSE 0
                now == fetch'[c].current_time_epoch
            IN IF remaining <= 0
               THEN /\ fetch'[c].pc = "rate limit"
                    /\ fetch'[c].result = "pending"
                    /\ fetch'[c].seconds_until_reset = reset - now + 1
                    /\ reset = now + 5 => fetch'[c].seconds_until_reset = 6
               ELSE fetch'[c].pc # "rate limit"]_vars

\* C10 witness: the last attempt got a 200 with no quota left and reset five
\* seconds ahead: the call sleeps 6 before it returns.
C10_Witness ==
    \E c \in Calls :
        /\ fetch[c].pc = "rate limit"
        /\ fetch[c].i = retries
        /\ fetch[c].response.status_code = 200
        /\ fetch[c].current_time_epoch = 10
        /\ fetch[c].seconds_until_reset = 6

\* Attempt i of call c ends in this step without returning its response.
AttemptFailed(c) ==
    /\ fetch[c].pc \in {"get", "rate limit"}
    /\ fetch'[c].pc \notin {"get", "rate limit"}
    /\ fetch'[c].result # "response"

\* C11: a failed attempt with index i (a status other than 200 or an exception
\* of the transport) is followed by the backoff sleep of 4, 8, 16 for
\* i = 0, 1, 2 when an attempt remains, and by the return of None with no
\* sleep after the final attempt; an attempt after the first is sent only at
\* the end of such a sleep.
C11_BackoffDelay ==
    [][\A c \in Calls :
        /\ AttemptFailed(c) =>
              IF fetch[c].i < 3
              THEN /\ fetch'[c].pc = "backoff"
                   /\ fetch'[c].retry_delay = <<4, 8, 16>>[fetch[c].i + 1]
                   /\ fetch'[c].result = "pending"
              ELSE /\ fetch'[c].pc = "returned"
                   /\ fetch'[c].result = "None"
                   /\ fetch'[c].retry_delay = 0
        /\ (fetch'[c].pc = "get" /\ fetch[c].pc # "not called" /\ fetch[c].pc # "get") =>
              /\ fetch[c].pc = "backoff"
              /\ fetch'[c].i = fetch[c].i + 1]_vars

\* C11 witness: one call sleeps 16 after its third failed attempt, which was
\* answered with a status other than 200, while the other has returned None
\* after its fourth.
C11_Witness ==
    \E c, d \in Calls :
        /\ fetch[c].pc = "backoff"
        /\ fetch[c].i = 2
        /\ fetch[c].retry_delay = 16
        /\ fetch[c].response.status_code = 403
        /\ fetch[d].result = "None"
        /\ fetch[d].requests = 4

\* ------------------------------------------------ claims on one accumulator
\* The value entry e of a payload carries for the metric of the object.
EntryValue(e) == IF metric.name \in DOMAIN e THEN e[metric.name] ELSE 0

\* The entries of a payload for the traffic kind of the object.
PayloadEntries(metric_data) ==
    IF metric.metric_type \in DOMAIN metric_data THEN metric_data[metric.metric_type] ELSE <<>>

RECURSIVE SumValues(_, _)
SumValues(entries, n) ==
    IF n = 0 THEN 0 ELSE SumValues(entries, n - 1) + EntryValue(entries[n])

\* What call h puts into the base accumulator: its count, or the sum over the
\* entries of its payload.
RecordedValue(h) ==
    IF h.call = "add_repository_metric"
    THEN h.metric_count
    ELSE SumValues(PayloadEntries(h.metric_data), Len(PayloadEntries(h.metric_data)))

RECURSIVE SumRecorded(_)
SumRecorded(n) == IF n = 0 THEN 0 ELSE SumRecorded(n - 1) + RecordedValue(history[n])

LargestRecorded ==
    IF history = <<>> THEN 0
    ELSE CHOOSE v \in {RecordedValue(history[i]) : i \in 1..Len(history)} :
            \A i \in 1..Len(history) : v >= RecordedValue(history[i])

\* The names of the first n calls that recorded v, in call order.
RECURSIVE NamesRecording(_, _)
NamesRecording(v, n) ==
    IF n = 0 THEN <<>>
    ELSE IF RecordedValue(history[n]) = v
    THEN Append(NamesRecording(v, n - 1), history[n].repository_name)
    ELSE NamesRecording(v, n - 1)

NoneNegative == \A i \in 1..Len(history) : RecordedValue(history[i]) >= 0

\* C12: after any sequence of calls that record values >= 0, the total is the
\* sum of the recorded values, the maximum is the largest of them (0 when
\* there is none), and get_top_repositories returns the names that recorded
\* the maximum, in call order: the empty list before any call.
C12_TotalMaxTop ==
    NoneNegative =>
        /\ metric.total_metric_count = SumRecorded(Len(history))
        /\ metric.max_metric_count = LargestRecorded
        /\ get_top_repositories(metric) = NamesRecording(LargestRecorded, Len(history))
        /\ history = <<>> => get_top_repositories(metric) = <<>>

\* C12 witness: three calls, the maximum 2 recorded by repo-b and then by
\* repo-a, with a smaller value in between.
C12_Witness ==
    /\ Len(history) = 3
    /\ NoneNegative
    /\ metric.max_metric_count = 2
    /\ RecordedValue(history[2]) = 1
    /\ get_top_repositories(metric) = <<"repo-b", "repo-a">>

\* C13: a call add_repository_metric(name, v) with v < 0 is refused: the
\* total, the maximum and the groups are after it what they were before.
C13_NegativeRejected ==
    [][(/\ Len(history') = Len(history) + 1
        /\ history'[Len(history')].call = "add_repository_metric"
        /\ history'[Len(history')].metric_count < 0) =>
            /\ metric'.total_metric_count = metric.total_metric_count
            /\ metric'.max_metric_count = metric.max_metric_count
            /\ metric'.repos_grouped_by_metric = metric.repos_grouped_by_metric]_vars

\* -------------------------------------------------- claims on the pagination
\* The items of pages 1..n of the chain, page after page.
RECURSIVE PagesItems(_)
PagesItems(n) == IF n = 0 THEN <<>> ELSE PagesItems(n - 1) \o pager.site[n].items

\* The first n of `items` without those of other owners.
RECURSIVE OwnedItems(_, _)
OwnedItems(items, n) ==
    IF n = 0 THEN <<>>
    ELSE IF items[n].owner.login = "user"
    THEN Append(OwnedItems(items, n - 1), items[n])
    ELSE OwnedItems(items, n - 1)

AllPagesFetched ==
    /\ pager.pc = "returned"
    /\ Len(pager.responses) = NumPages
    /\ \A i \in 1..NumPages : pager.responses[i] = "200"

\* C14 as claimed: with every page of the chain fetched, get_repositories
\* returns the items of all pages, page after page.
C14_AllPagesConcatenated ==
    AllPagesFetched =>
        /\ pager.result = PagesItems(NumPages)
        /\ Len(pager.result) = NumPages * PageSize

\* C14 as amended: with every page of the chain fetched, the list built by
\* the loop is the items of all pages, page after page, and get_repositories
\* returns those of them whose owner is the user, in that order: all of
\* them, NumPages * PageSize, when the user owns every item.
C14_OwnedItemsInPageOrder ==
    AllPagesFetched =>
        /\ pager.requested = [i \in 1..NumPages |-> i]
        /\ pager.user_repositories = PagesItems(NumPages)
        /\ pager.result = OwnedItems(PagesItems(NumPages), NumPages * PageSize)
        /\ (\A i \in 1..(NumPages * PageSize) : PagesItems(NumPages)[i].owner.login = "user") =>
              /\ pager.result = PagesItems(NumPages)
              /\ Len(pager.result) = NumPages * PageSize

\* C14 witness: every page was fetched, the first and the last item belong to
\* the user and one in between does not.
C14_Witness ==
    /\ AllPagesFetched
    /\ Len(pager.result) = NumPages * PageSize - 1
    /\ pager.result[1] = pager.site[1].items[1]
    /\ pager.result[Len(pager.result)] = pager.site[NumPages].items[PageSize]

\* The request of page k was answered with None.
FailedAt(k) ==
    /\ k \in 1..Len(pager.responses)
    /\ pager.responses[k] = "None"

\* C15 as claimed: when the fetch of page k fails, get_repositories returns
\* the items of pages 1..k-1 and has requested no page after k.
C15_FailedPageEndsList ==
    \A k \in 1..NumPages :
        FailedAt(k) =>
            /\ pager.pc = "returned"
            /\ pager.result = PagesItems(k - 1)
            /\ pager.requested = [i \in 1..k |-> i]

\* C15 as amended: when the fetch of page k fails, the loop ends with the
\* items of pages 1..k-1, no page after k is requested, and get_repositories
\* returns those of the items of pages 1..k-1 whose owner is the user.
C15_FailedPageEndsOwnedList ==
    \A k \in 1..NumPages :
        FailedAt(k) =>
            /\ pager.pc = "returned"
            /\ k = Len(pager.responses)
            /\ pager.requested = [i \in 1..k |-> i]
            /\ pager.user_repositories = PagesItems(k - 1)
            /\ pager.result = OwnedItems(PagesItems(k - 1), (k - 1) * PageSize)

\* C15 witness: the second page failed and the user owns one item of the first.
C15_Witness ==
    /\ FailedAt(2)
    /\ pager.pc = "returned"
    /\ Len(pager.result) = 1
    /\ Len(pager.user_repositories) = PageSize

\* No call so far has handed a traffic entry to the object.
NoTrafficRecorded ==
    /\ \A i \in 1..Len(history) :
          \/ history[i].call = "add_repository_metric"
          \/ PayloadEntries(history[i].metric_data) = <<>>
    /\ \A i \in 1..Len(failed) :
          EntriesBeforeRaise(PayloadEntries(failed[i].metric_data), 1) = <<>>

\* C16: as constructed, and until a traffic entry is recorded, the window of
\* the object has exactly 14 keys, the 14 consecutive dates from today - 14
\* to yesterday, each with the pair (0, []).
C16_FreshWindow ==
    NoTrafficRecorded =>
        LET window == metric.total_metric_at_timestamps
        IN /\ Cardinality(DOMAIN window) = 14
           /\ DOMAIN window = {<<d, "T00:00:00Z">> : d \in (Today - 14)..(Today - 1)}
           /\ <<Today, "T00:00:00Z">> \notin DOMAIN window
           /\ \A ts \in DOMAIN window : window[ts] = <<0, <<>>>>

\* C16 witness: the object as constructed, yesterday its last key.
C16_Witness ==
    /\ history = <<>>
    /\ failed = <<>>
    /\ metric.name = "uniques"
    /\ <<Today - 1, "T00:00:00Z">> \in DOMAIN metric.total_metric_at_timestamps

\* Some call so far carried an entry of the object's traffic kind for `ts`.
ReportedAt(ts) ==
    \/ \E i \in 1..Len(history) :
          /\ history[i].call = "add_repository_traffic_metric"
          /\ \E k \in 1..Len(PayloadEntries(history[i].metric_data)) :
                PayloadEntries(history[i].metric_data)[k].timestamp = ts
    \/ \E i \in 1..Len(failed) :
          LET passed == EntriesBeforeRaise(PayloadEntries(failed[i].metric_data), 1)
          IN \E k \in 1..Len(passed) : passed[k].timestamp = ts

\* C17: after any sequence of calls each of the 14 dates of the constructor
\* is still a key of the window, and such a date for which no call carried
\* an entry still has the pair (0, []).
C17_WindowKeysKept ==
    \A d \in (Today - 14)..(Today - 1) :
        LET ts == <<d, "T00:00:00Z">>
        IN /\ ts \in DOMAIN metric.total_metric_at_timestamps
           /\ ~ReportedAt(ts) => metric.total_metric_at_timestamps[ts] = <<0, <<>>>>

\* C17 witness: entries were recorded for yesterday and for today, which is
\* no date of the constructor; the day before yesterday had none.
C17_Witness ==
    /\ ReportedAt(<<Today - 1, "T00:00:00Z">>)
    /\ ReportedAt(<<Today, "T00:00:00Z">>)
    /\ ~ReportedAt(<<Today - 2, "T00:00:00Z">>)
    /\ Cardinality(DOMAIN metric.total_metric_at_timestamps) = 15

\* This step is a call of add_repository_traffic_metric.
TrafficCall ==
    /\ Len(history') = Len(history) + 1
    /\ history'[Len(history')].call = "add_repository_traffic_metric"

\* The pairs (repository, value) of the first n entries that carry timestamp ts.
RECURSIVE PairsAt(_, _, _, _)
PairsAt(entries, ts, repository_name, n) ==
    IF n = 0 THEN <<>>
    ELSE IF entries[n].timestamp = ts
    THEN Append(PairsAt(entries, ts, repository_name, n - 1),
                <<repository_name, EntryValue(entries[n])>>)
    ELSE PairsAt(entries, ts, repository_name, n - 1)

RECURSIVE SumPairs(_, _)
SumPairs(pairs, n) == IF n = 0 THEN 0 ELSE SumPairs(pairs, n - 1) + pairs[n][2]

\* C18: a call of add_repository_traffic_metric adds, for every entry of the
\* payload in order, the entry's value (0 without the key) to the total of
\* the entry's timestamp and appends (repository, value) to its list; the
\* pair of every other date is what it was.  On the fresh object for "count",
\* the payload with the one entry (yesterday, count 5, uniques 3) of repo-a
\* gives (5, [("repo-a", 5)]) at that timestamp and the total 5.
C18_EntriesRecordedPerDate ==
    [][TrafficCall =>
        LET h == history'[Len(history')]
            entries == PayloadEntries(h.metric_data)
            before == metric.total_metric_at_timestamps
            after == metric'.total_metric_at_timestamps
        IN /\ DOMAIN after =
                DOMAIN before \cup {entries[k].timestamp : k \in 1..Len(entries)}
           /\ \A ts \in DOMAIN after :
                LET old == IF ts \in DOMAIN before THEN before[ts] ELSE <<0, <<>>>>
                    pairs == PairsAt(entries, ts, h.repository_name, Len(entries))
                IN after[ts] = <<old[1] + SumPairs(pairs, Len(pairs)), old[2] \o pairs>>
           /\ (/\ history = <<>>
               /\ metric.name = "count"
               /\ h.repository_name = "repo-a"
               /\ h.metric_data =
                    [views |-> << [timestamp |-> <<Today - 1, "T00:00:00Z">>,
                                   count |-> 5, uniques |-> 3] >>]) =>
                 /\ after[<<Today - 1, "T00:00:00Z">>] = <<5, << <<"repo-a", 5>> >> >>
                 /\ metric'.total_metric_count = 5]_vars

\* C18 witness: repo-a and then repo-b reported 5 views for yesterday.
C18_Witness ==
    /\ metric.name = "count"
    /\ Len(history) = 2
    /\ metric.total_metric_at_timestamps[<<Today - 1, "T00:00:00Z">>] =
           <<10, << <<"repo-a", 5>>, <<"repo-b", 5>> >> >>

\* How many names the groups of `grouped` hold.
RECURSIVE GroupedCount(_, _)
GroupedCount(grouped, keys) ==
    IF keys = {} THEN 0
    ELSE LET k == CHOOSE x \in keys : TRUE
         IN Len(grouped[k]) + GroupedCount(grouped, keys \ {k})

\* C19: a call of add_repository_traffic_metric records the repository once
\* in the base accumulator, with the sum of the values of all entries of the
\* payload: the total grows by the sum, the maximum is compared with the sum,
\* and the repository is appended to the group of the sum and to no other.
\* Daily values 3 and 4 put the repository under 7.
C19_OneRecordOfTheSum ==
    [][TrafficCall =>
        LET h == history'[Len(history')]
            entries == PayloadEntries(h.metric_data)
            sum == SumValues(entries, Len(entries))
            before == metric.repos_grouped_by_metric
            after == metric'.repos_grouped_by_metric
        IN /\ metric'.total_metric_count = metric.total_metric_count + sum
           /\ metric'.max_metric_count =
                IF sum > metric.max_metric_count THEN sum ELSE metric.max_metric_count
           /\ DOMAIN after = DOMAIN before \cup {sum}
           /\ after[sum] = (IF sum \in DOMAIN before THEN before[sum] ELSE <<>>)
                             \o <<h.repository_name>>
           /\ \A v \in DOMAIN before : v # sum => after[v] = before[v]
           /\ GroupedCount(after, DOMAIN after) = GroupedCount(before, DOMAIN before) + 1
           /\ (/\ Len(entries) = 2
               /\ EntryValue(entries[1]) = 3
               /\ EntryValue(entries[2]) = 4) => sum = 7]_vars

\* C19 witness: repo-a reported 3 and 4 views on two days and 5 on one day
\* for repo-b: repo-a leads under 7, and no group is under 3 or 4.
C19_Witness ==
    /\ metric.name = "count"
    /\ Len(history) = 2
    /\ metric.max_metric_count = 7
    /\ get_top_repositories(metric) = <<"repo-a">>
    /\ DOMAIN metric.repos_grouped_by_metric = {5, 7}
    /\ metric.total_metric_at_timestamps[<<Today - 3, "T00:00:00Z">>][1] = 3

\* ------------------------------------------------ claims on the scheduler
\* The unit is in its mutation phase or past it.
Mutating(r) == pc[r] \in {"locked", "done"} \/ step[r] > 0

\* C20: the two get_response calls of a unit are started together, so that
\* neither has returned while the other is not yet started, and the unit
\* takes the lock and calls the tracker only when both have returned, each
\* a response or None.
C20_BothFetchesBeforeMutation ==
    \A r \in Repos :
        /\ views_response[r] = "not started" <=> clones_repsonse[r] = "not started"
        /\ pc[r] = "waiting" => views_response[r] = "not started"
        /\ pc[r] = "fetching" =>
              /\ views_response[r] \in {"in flight"} \cup Results
              /\ clones_repsonse[r] \in {"in flight"} \cup Results
        /\ (Mutating(r) \/ pc[r] = "parsed") =>
              /\ views_response[r] \in Results
              /\ clones_repsonse[r] \in Results

\* C20 witness: the clones call of one unit has returned while its views call
\* is in flight, another unit has its views call returned and its clones call
\* in flight, and a third is in its mutation phase after a failed clones call.
C20_Witness ==
    \E r, q, u \in Repos :
        /\ views_response[r] = "in flight" /\ clones_repsonse[r] \in Results
        /\ clones_repsonse[q] = "in flight" /\ views_response[q] \in Results
        /\ pc[u] = "locked" /\ clones_repsonse[u] = "None"

\* C21: under the fairness of the event loop, with every get_response call
\* returning, every unit is admitted and completes, and main gets past
\* asyncio.gather to the reports.
C21_EveryUnitCompletes ==
    /\ \A r \in Repos : <>(pc[r] \notin {"waiting"})
    /\ \A r \in Repos : <>(pc[r] = "done")
    /\ <>(phase = "print_metrics")

\* C22: while one call sleeps in handle_rate_limit (a wait of positive
\* length, not yet over), no other call on the handler sends a request.
C22_RateLimitWaitIsShared ==
    [][\A c, d \in Calls :
        (/\ c # d
         /\ fetch[c].pc = "rate limit"
         /\ fetch[c].seconds_until_reset > 0
         /\ fetch'[c].pc = "rate limit") =>
            fetch'[d].requests = fetch[d].requests]_vars

\* The places (value, position) at which repository r is listed in metric m.
PlacesOf(r, m) ==
    LET g == metric_tracker[m].repos_grouped_by_metric
    IN {p \in UNION {{<<v, i>> : i \in 1..Len(g[v])} : v \in DOMAIN g} :
            g[p[1]][p[2]] = r}

\* C23: once main is past asyncio.gather, every repository is listed at
\* exactly one place of repos_grouped_by_metric in each of the seven metrics:
\* in one group and once in it.  (On the way there, a unit that is done is
\* listed once and a unit that has not reached the lock is not listed.)
C23_EachNameOnce ==
    \A m \in MetricNames, r \in Repos :
        /\ phase \in ReportPhases => Cardinality(PlacesOf(r, m)) = 1
        /\ pc[r] = "done" => Cardinality(PlacesOf(r, m)) = 1
        /\ step[r] = 0 => PlacesOf(r, m) = {}

\* C23 witness: the reports are reached, two repositories share a group of
\* the views metric and another group holds one repository that reported
\* two days of views.
C23_Witness ==
    /\ phase \in ReportPhases
    /\ \E v \in DOMAIN metric_tracker["views"].repos_grouped_by_metric :
          Len(metric_tracker["views"].repos_grouped_by_metric[v]) >= 2
    /\ \E r \in Repos :
          /\ views_response[r] = "200"
          /\ Len(Get(ViewsBody(r), "views", <<>>)) = 2

\* The Link header of the page requested i-th has a link with rel="next".
HasNext(i) ==
    \E k \in 1..Len(pager.site[pager.requested[i]].link) :
        pager.site[pager.requested[i]].link[k].rel = "next"

\* C24: over a chain without a cycle, get_repositories requests no URL twice,
\* requests after a page only the URL of that page's link with rel="next",
\* and returns right after the first response that has no Link header
\* (None included) or none with rel="next".
C24_FollowsNextOnce ==
    LET req == pager.requested
        resp == pager.responses
    IN /\ \A i, j \in 1..Len(req) : i < j => req[i] # req[j]
       /\ \A i \in 1..(Len(req) - 1) :
             /\ resp[i] = "200"
             /\ \E k \in 1..Len(pager.site[req[i]].link) :
                   pager.site[req[i]].link[k] = [url |-> req[i + 1], rel |-> "next"]
       /\ \A i \in 1..Len(resp) :
             (resp[i] = "None" \/ ~HasNext(i)) =>
                 /\ pager.pc = "returned"
                 /\ i = Len(req)
       /\ pager.pc = "returned" =>
             /\ Len(resp) = Len(req)
             /\ resp[Len(resp)] = "None" \/ ~HasNext(Len(resp))

\* C24 witness: every page was requested once, in the order of the chain, and
\* the run ended at the last page, whose header has links back (prev, first)
\* and none with rel="next".
C24_Witness ==
    /\ pager.pc = "returned"
    /\ pager.requested = [i \in 1..NumPages |-> i]
    /\ pager.responses[NumPages] = "200"
    /\ Len(pager.site[NumPages].link) = 2

\* C25: an entry whose timestamp is no key of the window is taken like any
\* other: the timestamp becomes a key, its pair is (0, []) plus the entries
\* of the call for it, and its value counts in what the repository adds to
\* the total; the window then has more keys than before, and no step ever
\* takes a key away (it has the 14 of the constructor or more).
C25_UnknownDateInserted ==
    [][/\ TrafficCall =>
            LET h == history'[Len(history')]
                entries == PayloadEntries(h.metric_data)
                before == metric.total_metric_at_timestamps
                after == metric'.total_metric_at_timestamps
            IN \A k \in 1..Len(entries) :
                  entries[k].timestamp \notin DOMAIN before =>
                      LET ts == entries[k].timestamp
                          pairs == PairsAt(entries, ts, h.repository_name, Len(entries))
                      IN /\ ts \in DOMAIN after
                         /\ after[ts] = <<SumPairs(pairs, Len(pairs)), pairs>>
                         /\ \E i \in 1..Len(pairs) :
                               pairs[i] = <<h.repository_name, EntryValue(entries[k])>>
                         /\ Cardinality(DOMAIN after) > Cardinality(DOMAIN before)
                         /\ metric'.total_metric_count =
                               metric.total_metric_count + SumValues(entries, Len(entries))
       /\ DOMAIN metric.total_metric_at_timestamps
              \subseteq DOMAIN metric'.total_metric_at_timestamps
       /\ Cardinality(DOMAIN metric'.total_metric_at_timestamps) >= 14]_vars

\* C25 witness: repo-a reported 2 unique visitors for today, which is no date
\* of the constructor: the window has 15 keys and the total is 2.
C25_Witness ==
    /\ metric.name = "uniques"
    /\ Len(history) = 1
    /\ Cardinality(DOMAIN metric.total_metric_at_timestamps) = 15
    /\ metric.total_metric_at_timestamps[<<Today, "T00:00:00Z">>] = <<2, << <<"repo-a", 2>> >> >>
    /\ metric.total_metric_count = 2

\* A call of add_repository_traffic_metric is made in this step: it returns
\* or it raises.
TrafficCallMade ==
    \/ TrafficCall /\ failed' = failed
    \/ Len(failed') = Len(failed) + 1 /\ history' = history

\* The payload of that call.
PayloadMade ==
    IF Len(failed') = Len(failed) + 1
    THEN failed'[Len(failed')].metric_data
    ELSE history'[Len(history')].metric_data

\* The payload has nothing under the traffic kind of the object, or what it
\* has there is no list of mappings.
AbsentOrMalformed(metric_data) ==
    \/ metric.metric_type \notin DOMAIN metric_data
    \/ \E k \in 1..Len(metric_data[metric.metric_type]) :
          "timestamp" \notin DOMAIN metric_data[metric.metric_type][k]

EnteredAt(r) ==
    IF \E i \in 1..Len(calls) : calls[i][1] = r
    THEN CHOOSE i \in 1..Len(calls) :
            calls[i][1] = r /\ \A j \in 1..(i - 1) : calls[j][1] # r
    ELSE 0

\* The names listed under value v of metric m.
NamesUnder(m, v) ==
    LET g == metric_tracker[m].repos_grouped_by_metric
    IN {g[v][i] : i \in 1..Len(g[v])}

\* C27: within each group of each metric the names stand in the order in
\* which their units entered the mutation phase, and once the fan-in is
\* passed the names of a group are the repositories that report that value,
\* whatever the interleaving was.
C27_GroupOrderIsMutationOrder ==
    \A m \in MetricNames :
        LET g == metric_tracker[m].repos_grouped_by_metric
        IN \A v \in DOMAIN g :
              /\ \A i, j \in 1..Len(g[v]) :
                    i < j => /\ EnteredAt(g[v][i]) > 0
                             /\ EnteredAt(g[v][i]) < EnteredAt(g[v][j])
              /\ phase \in ReportPhases =>
                    NamesUnder(m, v) = {r \in Repos : Reported(r, m) = v}

\* C27 witness: a finished run in which repository 3 entered its mutation
\* phase before repository 1, so the group of one watcher lists 3 before 1.
C27_Witness ==
    /\ phase = "end"
    /\ EnteredAt(3) < EnteredAt(1)
    /\ metric_tracker["watchers"].repos_grouped_by_metric[1] = <<3, 1>>

\* The unit has left process_repository: it returned, it raised or it was
\* cancelled.
Finished(r) == pc[r] \in {"done", "failed", "cancelled"}

\* C28: the free permits and the admitted, unfinished units add up to K; the
\* lock is held by no unit or by the one admitted unit making its calls; and
\* when every unit has finished, however it did, all K permits are back and
\* the lock is free.
C28_PermitsAndLockReturned ==
    /\ semaphore + Cardinality(InFlight) = K
    /\ lock # 0 => lock \in InFlight /\ pc[lock] = "locked"
    /\ \A r \in Repos : pc[r] = "locked" => lock = r
    /\ (\A r \in Repos : Finished(r)) => semaphore = K /\ lock = 0

\* C28 witness: every unit has finished, one of them by raising in the middle
\* of its calls while it held the lock, another was cancelled, and the
\* permits and the lock are back.
C28_Witness ==
    /\ \A r \in Repos : Finished(r)
    /\ \E r \in Repos : pc[r] = "failed" /\ step[r] > 0
    /\ \E r \in Repos : pc[r] = "cancelled" /\ views_response[r] # "not started"
    /\ semaphore = K
    /\ lock = 0

\* The get_response calls of unit r that are in progress: those its gather
\* has started and that have not returned.
FetchesInProgress(r) ==
    IF pc[r] = "fetching"
    THEN (IF views_response[r] = "in flight" THEN 1 ELSE 0)
         + (IF clones_repsonse[r] = "in flight" THEN 1 ELSE 0)
    ELSE 0

RECURSIVE TotalInProgress(_)
TotalInProgress(n) ==
    IF n = 0 THEN 0 ELSE FetchesInProgress(n) + TotalInProgress(n - 1)

\* C29: while the repositories are processed at most 2 * K get_response calls
\* are in progress: two for each permit that is held, and none for a unit
\* that holds no permit.
C29_AtMostTwoKFetches ==
    /\ TotalInProgress(NumRepos) <= 2 * K
    /\ TotalInProgress(NumRepos) <= 2 * (K - semaphore)
    /\ \A r \in Repos : FetchesInProgress(r) > 0 => r \in InFlight

\* C29 witness: K units are admitted, both calls of each are in progress,
\* and the last unit waits for a permit.
C29_Witness ==
    /\ TotalInProgress(NumRepos) = 2 * K
    /\ semaphore = 0
    /\ pc[NumRepos] = "waiting"

\* The attempt of call c in flight is answered, in this step, with a status
\* other than 200 and a remaining quota of 0 or less, and attempts remain.
RateLimitedFailure(c) ==
    /\ fetch[c].pc = "get"
    /\ fetch'[c].response.status_code \notin {0, 200}
    /\ RateLimited(fetch'[c].response.headers)
    /\ fetch[c].i < retries

\* C30: an attempt answered with a status other than 200 and no quota left,
\* with attempts remaining, first waits for the reset; when that wait ends
\* the call goes on to the backoff sleep of 4, 8, 16 with the rate-limit wait
\* still on its account, and the next attempt is sent only when the backoff
\* sleep ends.
C30_BothWaitsAddUp ==
    [][\A c \in Calls :
        /\ RateLimitedFailure(c) =>
              /\ fetch'[c].pc = "rate limit"
              /\ fetch'[c].seconds_until_reset =
                    SecondsUntilReset(fetch'[c].response.headers,
                                      fetch'[c].current_time_epoch)
              /\ fetch'[c].requests = fetch[c].requests
        /\ (/\ fetch[c].pc = "rate limit"
            /\ fetch'[c].pc # "rate limit"
            /\ fetch[c].response.status_code # 200
            /\ fetch[c].i < retries) =>
              /\ fetch'[c].pc = "backoff"
              /\ fetch'[c].retry_delay = delay * Pow(backoff_factor, fetch[c].i + 1)
              /\ fetch'[c].seconds_until_reset = fetch[c].seconds_until_reset
              /\ fetch'[c].requests = fetch[c].requests
        /\ (fetch[c].pc = "backoff" /\ fetch'[c].pc # "backoff") =>
              /\ fetch'[c].pc = "get"
              /\ fetch'[c].i = fetch[c].i + 1
              /\ fetch'[c].requests = fetch[c].requests + 1]_vars

\* C30 witness: a call is in its backoff sleep of 8 after its second attempt,
\* which was answered 403 with no quota left and made it wait for the reset
\* first.
C30_Witness ==
    \E c \in Calls :
        /\ fetch[c].pc = "backoff"
        /\ fetch[c].i = 1
        /\ fetch[c].response.status_code = 403
        /\ RateLimited(fetch[c].response.headers)
        /\ fetch[c].seconds_until_reset > 0
        /\ fetch[c].retry_delay = 8

\* The response carries neither X-RateLimit-Remaining nor X-RateLimit-Reset.
NoRateLimitHeaders(response) ==
    /\ response.status_code # 0
    /\ "X-RateLimit-Remaining" \notin DOMAIN response.headers
    /\ "X-RateLimit-Reset" \notin DOMAIN response.headers

\* C31: a response without the two rate-limit headers is taken as quota 0
\* with reset epoch 0: the call enters handle_rate_limit's wait with
\* 1 - now seconds, which is not positive for the clock readings from 1 on,
\* and when that wait ends a 200 response is returned without a new request.
C31_MissingHeadersNeverWait ==
    [][\A c \in Calls :
        /\ (fetch[c].pc = "get" /\ NoRateLimitHeaders(fetch'[c].response)) =>
              /\ fetch'[c].pc = "rate limit"
              /\ fetch'[c].seconds_until_reset = 1 - fetch'[c].current_time_epoch
              /\ fetch'[c].current_time_epoch >= 1 => fetch'[c].seconds_until_reset <= 0
        /\ (/\ fetch[c].pc = "rate limit"
            /\ fetch'[c].pc # "rate limit"
            /\ NoRateLimitHeaders(fetch[c].response)
            /\ fetch[c].response.status_code = 200) =>
              /\ fetch'[c].pc = "returned"
              /\ fetch'[c].result = "response"
              /\ fetch'[c].requests = fetch[c].requests]_vars

\* C31 witness: a call has returned a 200 response that carried no rate-limit
\* header, after a wait computed as 1 - 10 = -9 seconds.
C31_Witness ==
    \E c \in Calls :
        /\ fetch[c].pc = "returned"
        /\ fetch[c].result = "response"
        /\ NoRateLimitHeaders(fetch[c].response)
        /\ fetch[c].current_time_epoch = 10
        /\ fetch[c].seconds_until_reset = -9

\* The sum of the totals of the dates `keys` of the window.
RECURSIVE WindowTotal(_, _)
WindowTotal(window, keys) ==
    IF keys = {} THEN 0
    ELSE LET ts == CHOOSE x \in keys : TRUE
         IN window[ts][1] + WindowTotal(window, keys \ {ts})

\* Only add_repository_traffic_metric has been called on the object.
OnlyTrafficCalls ==
    \A i \in 1..Len(history) : history[i].call = "add_repository_traffic_metric"

\* C32: after any sequence of add_repository_traffic_metric calls the totals
\* of all dates of the window add up to the total of the base accumulator,
\* and the total of each date is the sum of the values in that date's list.
C32_WindowSumsMatchTotal ==
    OnlyTrafficCalls =>
        LET w == metric.total_metric_at_timestamps
        IN /\ WindowTotal(w, DOMAIN w) = metric.total_metric_count
           /\ \A ts \in DOMAIN w : w[ts][1] = SumPairs(w[ts][2], Len(w[ts][2]))

\* main, lines 143-147: one process_repository unit for each item of the
\* list get_repositories returned, in its order.
tasks == [i \in 1..Len(pager.result) |-> pager.result[i].name]

\* C33: when get_repositories has returned, its list is the fetched items
\* owned by the user, in the order in which they were fetched, and main makes
\* its units of that list: no unit is made for an item of another owner, and
\* every fetched item of the user has one.
C33_OnlyOwnedRepositories ==
    pager.pc = "returned" =>
        LET fetched == pager.user_repositories
        IN /\ pager.result = OwnedItems(fetched, Len(fetched))
           /\ \A i \in 1..Len(pager.result) : pager.result[i].owner.login = user_name
           /\ \A k \in 1..Len(fetched) :
                 (\E i \in 1..Len(tasks) : tasks[i] = fetched[k].name)
                    <=> fetched[k].owner.login = user_name
           /\ \A i, j \in 1..Len(tasks) :
                 i < j => \E k, l \in 1..Len(fetched) :
                             /\ k < l
                             /\ fetched[k].name = tasks[i]
                             /\ fetched[l].name = tasks[j]

\* C33 witness: every page was fetched, an item of another owner stood
\* between two of the user's and only it was dropped.
C33_Witness ==
    /\ AllPagesFetched
    /\ pager.user_repositories[2].owner.login # user_name
    /\ Len(tasks) = Len(pager.user_repositories) - 1
    /\ tasks[1] = pager.user_repositories[1].name
    /\ tasks[2] = pager.user_repositories[3].name

====
